---- MODULE Spec2Model ----
(***************************************************************************)
(* Model of the recipe reader component RecipeTTSApp (src/app/page.tsx):   *)
(* the React state of the component, the two localStorage entries it       *)
(* reads and writes, and the browser speech engine it drives.              *)
(*                                                                         *)
(* Numbers: rate, pitch and volume are kept in tenths (10 is 1.0), the     *)
(* step of the sliders.  A text is a sequence of characters.  The null     *)
(* utterance reference is 0; utterance objects are numbered from 1 in the  *)
(* order startSpeech constructs them.                                      *)
(***************************************************************************)
EXTENDS Integers, Sequences, FiniteSets

\* ---------------------------------------------------------------- bounds
\* Utterance objects one component instance constructs.
MaxUtt == 2
\* Largest reading of Date.now().
MaxClock == 2
\* Largest number of recipes in the collection.
MaxRecipes == 2

\* ------------------------------------------------------------ input sets
\* Editor texts: empty, whitespace only, and two texts that are not blank
\* (one with surrounding whitespace).
Texts == {<<>>, <<" ">>, <<"a">>, <<" ", "b", " ">>}
\* Editor titles.
Titles == {<<>>, <<" ">>, <<"t">>}
\* Slider positions, in tenths.
RateVals == {10, 15}
PitchVals == {10}
VolumeVals == {10, 5}
\* The voices the platform can report: {name, lang} pairs.
VoiceA == [name |-> "v1", lang |-> "en"]
VoiceB == [name |-> "v2", lang |-> "fr"]
\* The lists speechSynthesis.getVoices() can return.
Catalogs == {<<>>, <<VoiceA, VoiceB>>}

\* ----------------------------------------------------- data and helpers
\* The initial value of the ttsSettings state.
DefaultSettings == [rate |-> 10, pitch |-> 10, volume |-> 10, voice |-> ""]

IsSpace(c) == c = " "

RECURSIVE TrimStart(_)
TrimStart(s) ==
    IF s # <<>> /\ IsSpace(Head(s)) THEN TrimStart(Tail(s)) ELSE s

RECURSIVE TrimEnd(_)
TrimEnd(s) ==
    IF s # <<>> /\ IsSpace(s[Len(s)])
    THEN TrimEnd(SubSeq(s, 1, Len(s) - 1))
    ELSE s

\* String.prototype.trim
Trim(s) == TrimEnd(TrimStart(s))

\* Mutant of IsBlank: the text is tested without trimming it.
IsBlankUntrimmed(s) == s = <<>>

\* !text.trim(): the empty string is the only falsy string.
IsBlank(s) == Trim(s) = <<>>

\* Number.prototype.toString: the decimal digits of n.
RECURSIVE ToString(_)
ToString(n) ==
    IF n < 10 THEN <<n>> ELSE ToString(n \div 10) \o <<n % 10>>

\* Date.prototype.toISOString of the instant ms.
ToISOString(ms) == <<"T">> \o ToString(ms)

\* A localStorage entry: what getItem returns.  kind "null": no entry;
\* kind "garbage": a string that is not JSON; kind "json": a string
\* JSON.stringify wrote, body being its content.
NullItem == [kind |-> "null", body |-> <<>>]
GarbageItem == [kind |-> "garbage", body |-> <<>>]

\* JSON.stringify of a recipe collection.
StringifyRecipes(rs) ==
    [kind |-> "json",
     body |-> [i \in 1..Len(rs) |->
                  <<rs[i].id, rs[i].title, rs[i].content, rs[i].createdAt>>]]

\* JSON.parse of a savedRecipes entry that is JSON.
ParseRecipes(item) ==
    [i \in 1..Len(item.body) |->
        [id |-> item.body[i][1], title |-> item.body[i][2],
         content |-> item.body[i][3], createdAt |-> item.body[i][4]]]

\* JSON.stringify of a settings record.
StringifySettings(s) ==
    [kind |-> "json", body |-> <<s.rate, s.pitch, s.volume, s.voice>>]

\* JSON.parse of a ttsSettings entry that is JSON.
ParseSettings(item) ==
    [rate |-> item.body[1], pitch |-> item.body[2],
     volume |-> item.body[3], voice |-> item.body[4]]

\* JSON.parse throws a SyntaxError on this entry.
ParseThrows(item) == item.kind = "garbage"

\* if (saved): getItem returned a string (null is falsy).
Truthy(item) == item.kind # "null"

\* voices.length > 0 && !voice, as loadVoices tests it.
NeedsBackfill(voices, voice) == Len(voices) > 0 /\ voice = ""

\* The settings after loadVoices' functional update, applied to prev.
BackfillVoice(prev, voices, closureVoice) ==
    IF NeedsBackfill(voices, closureVoice)
    THEN [prev EXCEPT !.voice = voices[1].name]
    ELSE prev

\* Mutant of FindVoice: the first voice of the list is taken, whatever its
\* name.
FindVoiceFirst(voices, name) == IF Len(voices) > 0 THEN 1 ELSE 0

\* availableVoices.find((voice) => voice.name === name): the first index
\* with that name, 0 when there is none.
FindVoice(voices, name) ==
    IF \E i \in 1..Len(voices) : voices[i].name = name
    THEN CHOOSE i \in 1..Len(voices) :
            /\ voices[i].name = name
            /\ \A j \in 1..(i - 1) : voices[j].name # name
    ELSE 0

\* The recipe a store can hold at page load, saved at an earlier instant.
StoredRecipe == [id |-> ToString(0), title |-> <<"t">>, content |-> <<"a">>,
                 createdAt |-> ToISOString(0)]

\* The stores a page load can find.
InitialStores ==
    [recipes : {NullItem, GarbageItem, StringifyRecipes(<<StoredRecipe>>)},
     tts : {NullItem, GarbageItem,
            StringifySettings([rate |-> 15, pitch |-> 10, volume |-> 5,
                               voice |-> "v2"])}]

\* The voice of an utterance whose voice was never assigned (null): the
\* engine speaks it with its own default voice.
DefaultVoice == [name |-> "", lang |-> ""]

\* Mutant of NewUtterance: the utterance is built from the trimmed text.
NewUtteranceTrimmed(text, settings, voices) ==
    [text |-> Trim(text),
     rate |-> settings.rate,
     pitch |-> settings.pitch,
     volume |-> settings.volume,
     voice |-> IF FindVoice(voices, settings.voice) # 0
               THEN voices[FindVoice(voices, settings.voice)]
               ELSE DefaultVoice]

\* new SpeechSynthesisUtterance(text) with the settings applied and the
\* voice set when the catalog snapshot has the preferred name.
NewUtterance(text, settings, voices) ==
    [text |-> text,
     rate |-> settings.rate,
     pitch |-> settings.pitch,
     volume |-> settings.volume,
     voice |-> IF FindVoice(voices, settings.voice) # 0
               THEN voices[FindVoice(voices, settings.voice)]
               ELSE DefaultVoice]

Range(q) == {q[i] : i \in 1..Len(q)}

\* Mutant of QueueAfterCancel: the cancel is left out.
QueueAfterCancelKeeps(q) == q

\* speechSynthesis.cancel(): the engine's queue afterwards.
QueueAfterCancel(q) == <<>>

\* Mutant of FilterOut: only the first recipe with the id is removed.
RECURSIVE FilterOutFirst(_, _)
FilterOutFirst(rs, id) ==
    IF rs = <<>> THEN <<>>
    ELSE IF Head(rs).id # id
         THEN <<Head(rs)>> \o FilterOutFirst(Tail(rs), id)
         ELSE Tail(rs)

\* savedRecipes.filter((r) => r.id !== id)
RECURSIVE FilterOut(_, _)
FilterOut(rs, id) ==
    IF rs = <<>> THEN <<>>
    ELSE IF Head(rs).id # id
         THEN <<Head(rs)>> \o FilterOut(Tail(rs), id)
         ELSE FilterOut(Tail(rs), id)

\* ------------------------------------------------------------ the state
VARIABLES
    phase,             \* "unmounted", "effects", "ready" or "crashed"
    store,             \* localStorage: the savedRecipes and ttsSettings entries
    readTts,           \* the ttsSettings entry the mount effect read
    queued,            \* the state updates the mount effect queued
    closureVoice,      \* ttsSettings.voice of the render loadVoices closes over
    voicesHandler,     \* speechSynthesis.onvoiceschanged is loadVoices
    recipe,            \* editor content
    recipeTitle,       \* editor title
    savedRecipes,      \* the recipe collection
    isPlaying,
    isPaused,
    currentUtterance,  \* 0 is null
    availableVoices,   \* the catalog snapshot
    ttsSettings,       \* the preferences record
    engineVoices,      \* what speechSynthesis.getVoices() returns
    engQueue,          \* the engine's utterance queue; its head is spoken first
    engSpeaking,       \* the head of the queue has begun being spoken
    engPaused,         \* the engine is in its paused state
    engCancelled,      \* cancelled utterances that have had no terminal event
    utts,              \* the utterance objects constructed, by number
    clock,             \* Date.now()
    lastOp,            \* the handler that ran last
    lastCalls,         \* the engine calls it issued, in order
    toast,             \* the notification it raised, "none" if none
    prev               \* the session before it ran, and the event's utterance

mountVars == <<phase, readTts, queued, closureVoice, voicesHandler>>
editorVars == <<recipe, recipeTitle>>
sessionVars == <<isPlaying, isPaused, currentUtterance>>
engineVars == <<engQueue, engSpeaking, engPaused, engCancelled, utts>>
prefVars == <<ttsSettings, availableVoices, engineVoices>>
libVars == <<savedRecipes, clock>>
histVars == <<lastOp, lastCalls, toast, prev>>

vars == <<phase, store, readTts, queued, closureVoice, voicesHandler, recipe,
          recipeTitle, savedRecipes, isPlaying, isPaused, currentUtterance,
          availableVoices, ttsSettings, engineVoices, engQueue, engSpeaking,
          engPaused, engCancelled, utts, clock, lastOp, lastCalls, toast,
          prev>>

\* The session state the two flags denote.
SessionState ==
    IF isPlaying /\ isPaused THEN "Both"
    ELSE IF isPlaying THEN "Playing"
    ELSE IF isPaused THEN "Paused"
    ELSE "Idle"

NoQueued == [savedRecipes |-> <<>>, ttsSettings |-> DefaultSettings,
             availableVoices |-> <<>>]

\* Records the handler that ran: its name, engine calls and notification,
\* the session and the size of the collection it found, and the utterance
\* whose event it handled (0: none).
Note(op, calls, t, u) ==
    /\ lastOp' = op
    /\ lastCalls' = calls
    /\ toast' = t
    /\ prev' = [state |-> SessionState, cur |-> currentUtterance, utt |-> u,
                len |-> Len(savedRecipes)]

\* The component before its effects run: the useState initial values.
Init ==
    /\ phase = "unmounted"
    /\ store \in InitialStores
    /\ readTts = NullItem
    /\ queued = NoQueued
    /\ closureVoice = ""
    /\ voicesHandler = FALSE
    /\ recipe = <<>>
    /\ recipeTitle = <<>>
    /\ savedRecipes = <<>>
    /\ isPlaying = FALSE
    /\ isPaused = FALSE
    /\ currentUtterance = 0
    /\ availableVoices = <<>>
    /\ ttsSettings = DefaultSettings
    /\ engineVoices \in Catalogs
    /\ engQueue = <<>>
    /\ engSpeaking = FALSE
    /\ engPaused = FALSE
    /\ engCancelled = {}
    /\ utts = <<>>
    /\ clock = 1
    /\ lastOp = "none"
    /\ lastCalls = <<>>
    /\ toast = "none"
    /\ prev = [state |-> "Idle", cur |-> 0, utt |-> 0, len |-> 0]

\* ------------------------------------------------------ initialization
\* JSON.parse throws in the mount effect: an entry is present and is not
\* JSON.  The savedRecipes entry is read and parsed first.
MountThrows(st) ==
    \/ Truthy(st.recipes) /\ ParseThrows(st.recipes)
    \/ Truthy(st.tts) /\ ParseThrows(st.tts)

\* The state the mount effect's queued updates produce: setSavedRecipes,
\* setTTSSettings, then loadVoices' setAvailableVoices and its functional
\* update of the voice, which tests the voice of the first render.
MountUpdates(st, voices) ==
    [savedRecipes |-> IF Truthy(st.recipes) THEN ParseRecipes(st.recipes)
                      ELSE savedRecipes,
     ttsSettings |-> BackfillVoice(IF Truthy(st.tts) THEN ParseSettings(st.tts)
                                   ELSE ttsSettings,
                                   voices, ttsSettings.voice),
     availableVoices |-> voices]

\* Mutant of Persisted: the effect runs on mount only, never again.
PersistedOnMountOnly(st, settings) ==
    IF st.tts.kind = "json" THEN st ELSE [st EXCEPT !.tts = StringifySettings(settings)]

\* The effect of [ttsSettings]: localStorage.setItem("ttsSettings", ...).
Persisted(st, settings) == [st EXCEPT !.tts = StringifySettings(settings)]

\* The passive effects of the first render, in the order they are declared:
\* the mount effect, then the effect that persists ttsSettings (still the
\* initial value in this render).  A throw in the mount effect ends the
\* component: no later statement and no later effect of it runs.
Mount ==
    /\ phase = "unmounted"
    /\ Note("mount", <<>>, "none", 0)
    /\ IF MountThrows(store)
       THEN /\ phase' = "crashed"
            /\ UNCHANGED <<store, readTts, queued, closureVoice, voicesHandler>>
       ELSE /\ phase' = "effects"
            /\ readTts' = store.tts
            /\ queued' = MountUpdates(store, engineVoices)
            /\ closureVoice' = ttsSettings.voice
            /\ voicesHandler' = TRUE
            /\ store' = Persisted(store, ttsSettings)
    /\ UNCHANGED <<editorVars, sessionVars, engineVars, prefVars, libVars>>

\* The render the queued updates cause, and its effect: ttsSettings is
\* persisted again (when no update changed it, the entry already holds it).
MountCommit ==
    /\ phase = "effects"
    /\ phase' = "ready"
    /\ savedRecipes' = queued.savedRecipes
    /\ ttsSettings' = queued.ttsSettings
    /\ availableVoices' = queued.availableVoices
    /\ store' = Persisted(store, queued.ttsSettings)
    /\ queued' = NoQueued
    /\ Note("mountCommit", <<>>, "none", 0)
    /\ UNCHANGED <<readTts, closureVoice, voicesHandler, editorVars,
                   sessionVars, engineVars, engineVoices, clock>>

\* The page is loaded again: a fresh component instance and a fresh engine
\* over the same localStorage.
Reload ==
    /\ phase \in {"ready", "crashed"}
    /\ phase' = "unmounted"
    /\ readTts' = NullItem
    /\ queued' = NoQueued
    /\ closureVoice' = ""
    /\ voicesHandler' = FALSE
    /\ recipe' = <<>>
    /\ recipeTitle' = <<>>
    /\ savedRecipes' = <<>>
    /\ isPlaying' = FALSE
    /\ isPaused' = FALSE
    /\ currentUtterance' = 0
    /\ availableVoices' = <<>>
    /\ ttsSettings' = DefaultSettings
    /\ engQueue' = <<>>
    /\ engSpeaking' = FALSE
    /\ engPaused' = FALSE
    /\ engCancelled' = {}
    /\ utts' = <<>>
    /\ lastOp' = "none"
    /\ lastCalls' = <<>>
    /\ toast' = "none"
    /\ prev' = [state |-> "Idle", cur |-> 0, utt |-> 0, len |-> 0]
    /\ UNCHANGED <<store, engineVoices, clock>>

\* -------------------------------------------------------------- editor
\* onChange of the content textarea.
SetRecipe(t) ==
    /\ phase = "ready"
    /\ recipe' = t
    /\ Note("setRecipe", <<>>, "none", 0)
    /\ UNCHANGED <<mountVars, store, recipeTitle, sessionVars, engineVars,
                   prefVars, libVars>>

\* onChange of the title input.
SetRecipeTitle(t) ==
    /\ phase = "ready"
    /\ recipeTitle' = t
    /\ Note("setRecipeTitle", <<>>, "none", 0)
    /\ UNCHANGED <<mountVars, store, recipe, sessionVars, engineVars,
                   prefVars, libVars>>

\* --------------------------------------------------------- preferences
\* A setter: the functional update of one field, then the render's effect
\* that persists the record.
SetSettings(op, next) ==
    /\ phase = "ready"
    /\ ttsSettings' = next
    /\ store' = Persisted(store, next)
    /\ Note(op, <<>>, "none", 0)
    /\ UNCHANGED <<mountVars, editorVars, sessionVars, engineVars,
                   availableVoices, engineVoices, libVars>>

SetRate(v) == SetSettings("setRate", [ttsSettings EXCEPT !.rate = v])

SetPitch(v) == SetSettings("setPitch", [ttsSettings EXCEPT !.pitch = v])

SetVolume(v) == SetSettings("setVolume", [ttsSettings EXCEPT !.volume = v])

\* The voice picker: shown when the snapshot is not empty, its items are
\* the snapshot's names.
SetVoice(i) ==
    /\ i \in 1..Len(availableVoices)
    /\ SetSettings("setVoice",
                   [ttsSettings EXCEPT !.voice = availableVoices[i].name])

\* The platform's voice list becomes c and onvoiceschanged runs loadVoices.
VoicesChanged(c) ==
    /\ phase = "ready"
    /\ voicesHandler
    /\ engineVoices' = c
    /\ availableVoices' = c
    /\ ttsSettings' = BackfillVoice(ttsSettings, c, closureVoice)
    /\ store' = IF NeedsBackfill(c, closureVoice)
                THEN Persisted(store, ttsSettings')
                ELSE store
    /\ Note("loadVoices", <<>>, "none", 0)
    /\ UNCHANGED <<mountVars, editorVars, sessionVars, engineVars, libVars>>

\* ------------------------------------------------------------ playback
\* Mutant of StartSpeech: a resume applies the current settings to the
\* paused utterance.
StartSpeechReapplies ==
    /\ phase = "ready"
    /\ IF IsBlank(recipe)
       THEN /\ Note("startSpeech", <<>>, "NoContent", 0)
            /\ UNCHANGED <<sessionVars, engineVars>>
       ELSE IF isPaused /\ currentUtterance # 0
       THEN /\ engPaused' = FALSE
            /\ isPaused' = FALSE
            /\ isPlaying' = TRUE
            /\ utts' = [utts EXCEPT ![currentUtterance] =
                           NewUtterance(@.text, ttsSettings, availableVoices)]
            /\ Note("startSpeech", <<"resume">>, "none", 0)
            /\ UNCHANGED <<currentUtterance, engQueue, engSpeaking,
                           engCancelled>>
       ELSE /\ Len(utts) < MaxUtt
            /\ utts' = Append(utts,
                              NewUtterance(recipe, ttsSettings, availableVoices))
            /\ engCancelled' = engCancelled \cup Range(engQueue)
            /\ engQueue' = <<Len(utts) + 1>>
            /\ engSpeaking' = FALSE
            /\ currentUtterance' = Len(utts) + 1
            /\ Note("startSpeech", <<"cancel", "speak">>, "none", 0)
            /\ UNCHANGED <<isPlaying, isPaused, engPaused>>
    /\ UNCHANGED <<mountVars, store, editorVars, prefVars, libVars>>

\* startSpeech.  Blank content: the notification and nothing else.  Paused
\* with an utterance: resume.  Otherwise cancel, construct, speak.
StartSpeech ==
    /\ phase = "ready"
    /\ IF IsBlank(recipe)
       THEN /\ Note("startSpeech", <<>>, "NoContent", 0)
            /\ UNCHANGED <<sessionVars, engineVars>>
       ELSE IF isPaused /\ currentUtterance # 0
       THEN /\ engPaused' = FALSE
            /\ isPaused' = FALSE
            /\ isPlaying' = TRUE
            /\ Note("startSpeech", <<"resume">>, "none", 0)
            /\ UNCHANGED <<currentUtterance, engQueue, engSpeaking,
                           engCancelled, utts>>
       ELSE /\ Len(utts) < MaxUtt
            /\ utts' = Append(utts,
                              NewUtterance(recipe, ttsSettings, availableVoices))
            /\ engCancelled' =
                  engCancelled \cup (Range(engQueue) \ Range(QueueAfterCancel(engQueue)))
            /\ engQueue' = Append(QueueAfterCancel(engQueue), Len(utts) + 1)
            /\ engSpeaking' = (engSpeaking /\ QueueAfterCancel(engQueue) # <<>>)
            /\ currentUtterance' = Len(utts) + 1
            /\ Note("startSpeech", <<"cancel", "speak">>, "none", 0)
            /\ UNCHANGED <<isPlaying, isPaused, engPaused>>
    /\ UNCHANGED <<mountVars, store, editorVars, prefVars, libVars>>

\* Mutant of PauseSpeech: the playing flag is not reset.
PauseSpeechKeepsPlaying ==
    /\ phase = "ready"
    /\ IF isPlaying
       THEN /\ engPaused' = TRUE
            /\ isPaused' = TRUE
            /\ Note("pauseSpeech", <<"pause">>, "none", 0)
            /\ UNCHANGED isPlaying
       ELSE /\ Note("pauseSpeech", <<>>, "none", 0)
            /\ UNCHANGED <<engPaused, isPlaying, isPaused>>
    /\ UNCHANGED <<mountVars, store, editorVars, prefVars, libVars,
                   currentUtterance, engQueue, engSpeaking, engCancelled, utts>>

\* Mutant of PauseSpeech: the isPlaying test is left out.
PauseSpeechUnguarded ==
    /\ phase = "ready"
    /\ engPaused' = TRUE
    /\ isPlaying' = FALSE
    /\ isPaused' = TRUE
    /\ Note("pauseSpeech", <<"pause">>, "none", 0)
    /\ UNCHANGED <<mountVars, store, editorVars, prefVars, libVars,
                   currentUtterance, engQueue, engSpeaking, engCancelled, utts>>

\* pauseSpeech
PauseSpeech ==
    /\ phase = "ready"
    /\ IF isPlaying
       THEN /\ engPaused' = TRUE
            /\ isPlaying' = FALSE
            /\ isPaused' = TRUE
            /\ Note("pauseSpeech", <<"pause">>, "none", 0)
       ELSE /\ Note("pauseSpeech", <<>>, "none", 0)
            /\ UNCHANGED <<engPaused, isPlaying, isPaused>>
    /\ UNCHANGED <<mountVars, store, editorVars, prefVars, libVars,
                   currentUtterance, engQueue, engSpeaking, engCancelled, utts>>

\* Mutant of StopSpeech: the utterance reference is not cleared.
StopSpeechKeepsUtterance ==
    /\ phase = "ready"
    /\ engCancelled' = engCancelled \cup Range(engQueue)
    /\ engSpeaking' = FALSE
    /\ engQueue' = <<>>
    /\ isPlaying' = FALSE
    /\ isPaused' = FALSE
    /\ Note("stopSpeech", <<"cancel">>, "none", 0)
    /\ UNCHANGED <<mountVars, store, editorVars, prefVars, libVars,
                   engPaused, utts, currentUtterance>>

\* stopSpeech
StopSpeech ==
    /\ phase = "ready"
    /\ engCancelled' =
          engCancelled \cup (Range(engQueue) \ Range(QueueAfterCancel(engQueue)))
    /\ engSpeaking' = (engSpeaking /\ QueueAfterCancel(engQueue) # <<>>)
    /\ engQueue' = QueueAfterCancel(engQueue)
    /\ isPlaying' = FALSE
    /\ isPaused' = FALSE
    /\ currentUtterance' = 0
    /\ Note("stopSpeech", <<"cancel">>, "none", 0)
    /\ UNCHANGED <<mountVars, store, editorVars, prefVars, libVars,
                   engPaused, utts>>

\* ------------------------------------------------- the engine's events
\* utterance.onstart
OnStart(u) ==
    /\ isPlaying' = TRUE
    /\ isPaused' = FALSE
    /\ UNCHANGED currentUtterance
    /\ Note("onstart", <<>>, "none", u)

\* utterance.onend
OnEnd(u) ==
    /\ isPlaying' = FALSE
    /\ isPaused' = FALSE
    /\ currentUtterance' = 0
    /\ Note("onend", <<>>, "none", u)

\* Mutant of OnError: the paused flag is not reset.
OnErrorKeepsPaused(u) ==
    /\ isPlaying' = FALSE
    /\ UNCHANGED isPaused
    /\ currentUtterance' = 0
    /\ Note("onerror", <<>>, "SpeechError", u)

\* utterance.onerror
OnError(u) ==
    /\ isPlaying' = FALSE
    /\ isPaused' = FALSE
    /\ currentUtterance' = 0
    /\ Note("onerror", <<>>, "SpeechError", u)

\* The engine begins to speak the head of its queue and fires its start
\* event; a paused engine begins nothing.
EngineStart ==
    /\ phase = "ready"
    /\ engQueue # <<>>
    /\ ~engSpeaking
    /\ ~engPaused
    /\ engSpeaking' = TRUE
    /\ OnStart(Head(engQueue))
    /\ UNCHANGED <<mountVars, store, editorVars, prefVars, libVars,
                   engQueue, engPaused, engCancelled, utts>>

\* The utterance being spoken completes: its end event.
EngineEnd ==
    /\ phase = "ready"
    /\ engQueue # <<>>
    /\ engSpeaking
    /\ ~engPaused
    /\ engQueue' = Tail(engQueue)
    /\ engSpeaking' = FALSE
    /\ OnEnd(Head(engQueue))
    /\ UNCHANGED <<mountVars, store, editorVars, prefVars, libVars,
                   engPaused, engCancelled, utts>>

\* Synthesis of the head of the queue fails, before or while it is spoken:
\* its error event.
EngineError ==
    /\ phase = "ready"
    /\ engQueue # <<>>
    /\ engQueue' = Tail(engQueue)
    /\ engSpeaking' = FALSE
    /\ OnError(Head(engQueue))
    /\ UNCHANGED <<mountVars, store, editorVars, prefVars, libVars,
                   engPaused, engCancelled, utts>>

\* The engine delivers the end event of an utterance cancel removed.
EngineLateEnd(u) ==
    /\ phase = "ready"
    /\ u \in engCancelled
    /\ engCancelled' = engCancelled \ {u}
    /\ OnEnd(u)
    /\ UNCHANGED <<mountVars, store, editorVars, prefVars, libVars,
                   engQueue, engSpeaking, engPaused, utts>>

\* The engine delivers the error event of an utterance cancel removed.
EngineLateError(u) ==
    /\ phase = "ready"
    /\ u \in engCancelled
    /\ engCancelled' = engCancelled \ {u}
    /\ OnError(u)
    /\ UNCHANGED <<mountVars, store, editorVars, prefVars, libVars,
                   engQueue, engSpeaking, engPaused, utts>>

\* ------------------------------------------------------ recipe library
\* Date.now() advances.
Tick ==
    /\ clock < MaxClock
    /\ clock' = clock + 1
    /\ Note("tick", <<>>, "none", 0)
    /\ UNCHANGED <<mountVars, store, editorVars, sessionVars, engineVars,
                   prefVars, savedRecipes>>

\* Mutant of SaveRecipe: the new recipe is put first.
SaveRecipePrepends ==
    /\ phase = "ready"
    /\ IF IsBlank(recipeTitle) \/ IsBlank(recipe)
       THEN /\ Note("saveRecipe", <<>>, "ValidationError", 0)
            /\ UNCHANGED <<savedRecipes, store>>
       ELSE /\ Len(savedRecipes) < MaxRecipes
            /\ savedRecipes' =
                  <<[id |-> ToString(clock), title |-> recipeTitle,
                     content |-> recipe, createdAt |-> ToISOString(clock)]>>
                  \o savedRecipes
            /\ store' = [store EXCEPT !.recipes = StringifyRecipes(savedRecipes')]
            /\ Note("saveRecipe", <<>>, "Success", 0)
    /\ UNCHANGED <<mountVars, editorVars, sessionVars, engineVars, prefVars,
                   clock>>

\* Mutant of SaveRecipe: only the title is validated.
SaveRecipeChecksTitleOnly ==
    /\ phase = "ready"
    /\ IF IsBlank(recipeTitle)
       THEN /\ Note("saveRecipe", <<>>, "ValidationError", 0)
            /\ UNCHANGED <<savedRecipes, store>>
       ELSE /\ Len(savedRecipes) < MaxRecipes
            /\ savedRecipes' =
                  Append(savedRecipes,
                         [id |-> ToString(clock), title |-> recipeTitle,
                          content |-> recipe, createdAt |-> ToISOString(clock)])
            /\ store' = [store EXCEPT !.recipes = StringifyRecipes(savedRecipes')]
            /\ Note("saveRecipe", <<>>, "Success", 0)
    /\ UNCHANGED <<mountVars, editorVars, sessionVars, engineVars, prefVars,
                   clock>>

\* saveRecipe
SaveRecipe ==
    /\ phase = "ready"
    /\ IF IsBlank(recipeTitle) \/ IsBlank(recipe)
       THEN /\ Note("saveRecipe", <<>>, "ValidationError", 0)
            /\ UNCHANGED <<savedRecipes, store>>
       ELSE /\ Len(savedRecipes) < MaxRecipes
            /\ savedRecipes' =
                  Append(savedRecipes,
                         [id |-> ToString(clock), title |-> recipeTitle,
                          content |-> recipe, createdAt |-> ToISOString(clock)])
            /\ store' = [store EXCEPT !.recipes = StringifyRecipes(savedRecipes')]
            /\ Note("saveRecipe", <<>>, "Success", 0)
    /\ UNCHANGED <<mountVars, editorVars, sessionVars, engineVars, prefVars,
                   clock>>

\* Mutant of LoadRecipe: loading a recipe also resets the playback flags.
LoadRecipeResetsSession(i) ==
    /\ phase = "ready"
    /\ i \in 1..Len(savedRecipes)
    /\ recipeTitle' = savedRecipes[i].title
    /\ recipe' = savedRecipes[i].content
    /\ isPlaying' = FALSE
    /\ isPaused' = FALSE
    /\ Note("loadRecipe", <<>>, "RecipeLoaded", 0)
    /\ UNCHANGED <<mountVars, store, currentUtterance, engineVars, prefVars,
                   libVars>>

\* loadRecipe(savedRecipes[i])
LoadRecipe(i) ==
    /\ phase = "ready"
    /\ i \in 1..Len(savedRecipes)
    /\ recipeTitle' = savedRecipes[i].title
    /\ recipe' = savedRecipes[i].content
    /\ Note("loadRecipe", <<>>, "RecipeLoaded", 0)
    /\ UNCHANGED <<mountVars, store, sessionVars, engineVars, prefVars,
                   libVars>>

\* deleteRecipe(id)
DeleteRecipe(id) ==
    /\ phase = "ready"
    /\ savedRecipes' = FilterOut(savedRecipes, id)
    /\ store' = [store EXCEPT !.recipes = StringifyRecipes(savedRecipes')]
    /\ Note("deleteRecipe", <<>>, "RecipeDeleted", 0)
    /\ UNCHANGED <<mountVars, editorVars, sessionVars, engineVars, prefVars,
                   clock>>

\* ---------------------------------------------------- the specification
\* Initialization and page reload.
NextMount ==
    \/ Mount
    \/ MountCommit
    \/ Reload

\* The playback controller and the speech engine.
NextPlayback ==
    \/ StartSpeech
    \/ PauseSpeech
    \/ StopSpeech
    \/ EngineStart
    \/ EngineEnd
    \/ EngineError
    \/ \E u \in 1..MaxUtt : EngineLateEnd(u)
    \/ \E u \in 1..MaxUtt : EngineLateError(u)

\* The preferences and the voice catalog.
NextPrefs ==
    \/ \E v \in RateVals : SetRate(v)
    \/ \E v \in PitchVals : SetPitch(v)
    \/ \E v \in VolumeVals : SetVolume(v)
    \/ \E i \in 1..2 : SetVoice(i)
    \/ \E c \in Catalogs : VoicesChanged(c)

\* The recipe library.
NextLibrary ==
    \/ Tick
    \/ \E t \in Titles : SetRecipeTitle(t)
    \/ SaveRecipe
    \/ \E i \in 1..MaxRecipes : LoadRecipe(i)
    \/ \E n \in 0..MaxClock : DeleteRecipe(ToString(n))

Next ==
    \/ NextMount
    \/ \E t \in Texts : SetRecipe(t)
    \/ NextPlayback
    \/ NextPrefs
    \/ NextLibrary

\* The whole component.
Spec == Init /\ [][Next]_vars

\* The playback controller: the component as its user plays, pauses and
\* stops, edits the content and the engine reports.
SpecPlayback ==
    Init /\ [][Mount \/ MountCommit \/ (\E t \in Texts : SetRecipe(t))
                 \/ NextPlayback]_vars

\* The preferences manager: the component as its user moves the settings,
\* the voice list changes and the page is reloaded.
SpecPrefs == Init /\ [][NextMount \/ NextPrefs]_vars

\* The recipe library: the component as its user edits, saves, loads and
\* deletes recipes and the page is reloaded.
SpecLibrary ==
    Init /\ [][NextMount \/ (\E t \in Texts : SetRecipe(t)) \/ NextLibrary]_vars

\* -------------------------------------------------------------- claims
Setters == {"setRate", "setPitch", "setVolume", "setVoice"}

\* C1: the engine never holds more than one utterance, and a startSpeech
\* that constructs an utterance issues cancel before speak and leaves the
\* new utterance alone in the engine, not yet begun.
C1_SingleActiveUtterance ==
    /\ Len(engQueue) <= 1
    /\ (lastOp = "startSpeech" /\ "speak" \in Range(lastCalls))
          => /\ lastCalls = <<"cancel", "speak">>
             /\ engQueue = <<currentUtterance>>
             /\ currentUtterance = Len(utts)
             /\ ~engSpeaking

\* C1 witness: startSpeech ran while Playing, and the utterance that was
\* being spoken is out of the engine.
C1_Witness ==
    /\ lastOp = "startSpeech"
    /\ prev.state = "Playing"
    /\ lastCalls = <<"cancel", "speak">>
    /\ prev.cur \in engCancelled
    /\ currentUtterance # prev.cur

\* C2 as stated: startSpeech on non-blank content in Idle leaves the
\* session Playing with an active utterance.
C2_StartYieldsPlaying ==
    (lastOp = "startSpeech" /\ prev.state = "Idle" /\ Trim(recipe) # <<>>)
       => (SessionState = "Playing" /\ currentUtterance # 0)

\* C2, amended: startSpeech on non-blank content in Idle constructs an
\* utterance from that content, makes it the active utterance and hands it
\* to the engine, the flags still reading Idle; the start event of the
\* active utterance makes the session Playing, and the end event of the
\* active utterance makes it Idle with no active utterance.
C2_StartThenEngineEvents ==
    /\ (lastOp = "startSpeech" /\ prev.state = "Idle" /\ Trim(recipe) # <<>>)
          => /\ currentUtterance = Len(utts)
             /\ currentUtterance # 0
             /\ currentUtterance # prev.cur
             /\ utts[currentUtterance].text = recipe
             /\ engQueue = <<currentUtterance>>
             /\ SessionState = "Idle"
    /\ (lastOp = "onstart" /\ prev.utt = prev.cur)
          => (SessionState = "Playing" /\ currentUtterance = prev.cur)
    /\ (lastOp = "onend" /\ prev.utt = prev.cur)
          => (SessionState = "Idle" /\ currentUtterance = 0)

\* C2 witness: the end event of the active utterance arrived while Playing.
C2_Witness ==
    /\ lastOp = "onend"
    /\ prev.state = "Playing"
    /\ prev.cur # 0
    /\ prev.utt = prev.cur
    /\ SessionState = "Idle"
    /\ currentUtterance = 0

\* C3 as stated: startSpeech in Paused with a paused utterance resumes it,
\* whatever the editor holds: only resume is issued, the session is Playing
\* and the utterance reference is the same.
C3_PausedStartResumes ==
    (lastOp = "startSpeech" /\ prev.state = "Paused" /\ prev.cur # 0)
       => /\ SessionState = "Playing"
          /\ lastCalls = <<"resume">>
          /\ currentUtterance = prev.cur

\* C4: startSpeech on content that is empty or whitespace only raises the
\* NoContent notification, issues no engine call, constructs no utterance
\* and leaves the session and the engine as they were.
C4_BlankStartChangesNothing ==
    [][(lastOp' = "startSpeech" /\ Trim(recipe) = <<>>)
          => /\ toast' = "NoContent"
             /\ lastCalls' = <<>>
             /\ UNCHANGED <<sessionVars, engineVars>>]_vars

\* C4 witness: startSpeech ran on whitespace-only content with a paused
\* utterance.
C4_Witness ==
    /\ lastOp = "startSpeech"
    /\ recipe = <<" ">>
    /\ toast = "NoContent"
    /\ SessionState = "Paused"
    /\ currentUtterance # 0

\* C5: pauseSpeech in Idle or Paused changes neither the session nor the
\* engine and issues no engine call; in Playing it issues pause and yields
\* Paused with the same utterance reference.
C5_PauseOnlyFromPlaying ==
    [][(lastOp' = "pauseSpeech")
          => IF isPlaying
             THEN /\ lastCalls' = <<"pause">>
                  /\ isPaused' /\ ~isPlaying'
                  /\ currentUtterance' = currentUtterance
             ELSE /\ lastCalls' = <<>>
                  /\ UNCHANGED <<sessionVars, engineVars>>]_vars

\* C5 witness: pauseSpeech ran in Paused and did nothing.
C5_Witness ==
    /\ lastOp = "pauseSpeech"
    /\ prev.state = "Paused"
    /\ lastCalls = <<>>
    /\ SessionState = "Paused"

\* C6: stopSpeech, in whatever session state, issues cancel and leaves the
\* session Idle with no utterance reference and the engine's queue empty.
C6_StopYieldsIdle ==
    lastOp = "stopSpeech"
       => /\ lastCalls = <<"cancel">>
          /\ SessionState = "Idle"
          /\ currentUtterance = 0
          /\ engQueue = <<>>

\* C6 witness: stopSpeech ran after startSpeech and before the start event.
C6_Witness ==
    /\ lastOp = "stopSpeech"
    /\ prev.state = "Idle"
    /\ prev.cur # 0
    /\ prev.cur \in engCancelled
    /\ currentUtterance = 0

\* C7: the error handler leaves the session Idle with no utterance
\* reference, raises SpeechError and issues no engine call; and only
\* startSpeech ever puts an utterance into the engine.
C7_ErrorYieldsIdleNoRetry ==
    [][/\ (lastOp' = "onerror")
             => /\ ~isPlaying' /\ ~isPaused'
                /\ currentUtterance' = 0
                /\ toast' = "SpeechError"
                /\ lastCalls' = <<>>
                /\ utts' = utts
       /\ (Range(engQueue') \ Range(engQueue) # {} \/ utts' # utts)
             => lastOp' = "startSpeech"]_vars

\* C7 witness: the error event arrived while Paused.
C7_Witness ==
    /\ lastOp = "onerror"
    /\ prev.state = "Paused"
    /\ prev.cur # 0
    /\ toast = "SpeechError"

\* C8 as stated: a catalog refresh leaves a non-empty voice preference as
\* it is, and sets the voice to the first entry's name only when the
\* catalog is non-empty and the voice is empty.
C8_RefreshKeepsChosenVoice ==
    [][(lastOp' = "loadVoices")
          => IF ttsSettings.voice = "" /\ Len(engineVoices') > 0
             THEN ttsSettings'.voice = engineVoices'[1].name
             ELSE ttsSettings'.voice = ttsSettings.voice]_vars

\* C9: after a setter the ttsSettings entry parses to the whole preferences
\* record; and an instance whose mount effect read an entry that is JSON
\* ends its initialization with the rate, pitch and volume of that entry,
\* in memory and in the store.
C9_WriteThroughSurvivesReload ==
    [][/\ (lastOp' \in Setters)
             => /\ store'.tts.kind = "json"
                /\ ParseSettings(store'.tts) = ttsSettings'
       /\ (lastOp' = "mountCommit" /\ readTts.kind = "json")
             => /\ ttsSettings'.rate = readTts.body[1]
                /\ ttsSettings'.pitch = readTts.body[2]
                /\ ttsSettings'.volume = readTts.body[3]
                /\ store'.tts.kind = "json"
                /\ store'.tts.body[1] = readTts.body[1]
                /\ store'.tts.body[2] = readTts.body[2]
                /\ store'.tts.body[3] = readTts.body[3]]_vars

\* C9 witness: an instance finished its initialization from an entry that
\* only a setter of an earlier instance can have written.
C9_Witness ==
    /\ lastOp = "mountCommit"
    /\ readTts.kind = "json"
    /\ readTts.body[1] = 15
    /\ readTts.body[3] = 10
    /\ ttsSettings.rate = 15
    /\ ttsSettings.volume = 10

\* C10 as stated: the mount effect completes whatever the two entries
\* hold: an entry that is absent or not JSON gives the empty collection,
\* respectively the default rate, pitch and volume, and the voices are
\* loaded and the refresh handler installed.
C10_MountToleratesBadEntries ==
    lastOp = "mount"
       => /\ phase = "effects"
          /\ voicesHandler
          /\ queued.availableVoices = engineVoices
          /\ (store.recipes.kind # "json" => queued.savedRecipes = <<>>)
          /\ (readTts.kind # "json"
                 => /\ queued.ttsSettings.rate = DefaultSettings.rate
                    /\ queued.ttsSettings.pitch = DefaultSettings.pitch
                    /\ queued.ttsSettings.volume = DefaultSettings.volume)

\* The editor and the library next to a playback session: the component as
\* its user edits, saves and loads recipes while speech is started, begun
\* and paused.
SpecEditor ==
    Init /\ [][Mount \/ MountCommit
                 \/ (\E t \in Texts : SetRecipe(t))
                 \/ (\E t \in Titles : SetRecipeTitle(t))
                 \/ SaveRecipe
                 \/ (\E i \in 1..MaxRecipes : LoadRecipe(i))
                 \/ StartSpeech
                 \/ PauseSpeech
                 \/ EngineStart]_vars

\* A page load that finds no recipes and either no settings or settings
\* an earlier instance wrote.
InitUtterance ==
    /\ Init
    /\ store.recipes = NullItem
    /\ store.tts.kind # "garbage"

\* Utterances next to the preferences: the component as its user starts,
\* pauses and resumes speech while the content, the rate and the voice are
\* changed and the voice list changes.
SpecUtterance ==
    InitUtterance
       /\ [][Mount \/ MountCommit
               \/ (\E t \in {t \in Texts : ~IsBlank(t)} : SetRecipe(t))
               \/ (\E v \in RateVals : SetRate(v))
               \/ (\E i \in 1..2 : SetVoice(i))
               \/ (\E c \in Catalogs : VoicesChanged(c))
               \/ StartSpeech
               \/ PauseSpeech
               \/ EngineStart]_vars

\* The recipes of rs whose id is not id, in the order of rs.
Without(rs, id) == SelectSeq(rs, LAMBDA r : r.id # id)

\* C11: saveRecipe with a title and a content that are not blank appends
\* one recipe with that title and content, keeps the recipes before it as
\* they were and in their order, whatever their titles, and leaves the
\* savedRecipes entry parsing to the new collection.
C11_SaveAppendsOne ==
    [][(lastOp' = "saveRecipe" /\ Trim(recipeTitle) # <<>> /\ Trim(recipe) # <<>>)
          => /\ Len(savedRecipes') = Len(savedRecipes) + 1
             /\ SubSeq(savedRecipes', 1, Len(savedRecipes)) = savedRecipes
             /\ savedRecipes'[Len(savedRecipes')].title = recipeTitle
             /\ savedRecipes'[Len(savedRecipes')].content = recipe
             /\ toast' = "Success"
             /\ store'.recipes.kind = "json"
             /\ ParseRecipes(store'.recipes) = savedRecipes']_vars

\* C11 witness: a save added a second recipe with the title of the first.
C11_Witness ==
    /\ lastOp = "saveRecipe"
    /\ toast = "Success"
    /\ prev.len = 1
    /\ Len(savedRecipes) = 2
    /\ savedRecipes[1].title = savedRecipes[2].title
    /\ savedRecipes[2].content = recipe

\* C12: saveRecipe with a blank title or a blank content raises the
\* validation notification and changes neither the collection nor the
\* savedRecipes entry.
C12_BlankSaveRejected ==
    [][(lastOp' = "saveRecipe" /\ (Trim(recipeTitle) = <<>> \/ Trim(recipe) = <<>>))
          => /\ toast' = "ValidationError"
             /\ UNCHANGED <<savedRecipes, store>>]_vars

\* C12 witness: a save with a title and whitespace-only content was
\* rejected while the collection held a recipe.
C12_Witness ==
    /\ lastOp = "saveRecipe"
    /\ toast = "ValidationError"
    /\ Trim(recipeTitle) # <<>>
    /\ recipe = <<" ">>
    /\ Len(savedRecipes) = 1
    /\ prev.len = 1

\* C13: deleteRecipe(id) leaves no recipe with that id, keeps the others in
\* their order, in memory and in the savedRecipes entry; with an id that is
\* absent the collection is unchanged, and no error is raised either way.
C13_DeleteRemovesId ==
    [][\A n \in 0..MaxClock :
          DeleteRecipe(ToString(n))
             => /\ \A i \in 1..Len(savedRecipes') :
                      savedRecipes'[i].id # ToString(n)
                /\ savedRecipes' = Without(savedRecipes, ToString(n))
                /\ ((\A i \in 1..Len(savedRecipes) :
                        savedRecipes[i].id # ToString(n))
                      => savedRecipes' = savedRecipes)
                /\ store'.recipes.kind = "json"
                /\ ParseRecipes(store'.recipes) = savedRecipes'
                /\ toast' = "RecipeDeleted"]_vars

\* C13 witness: a delete removed one of two recipes and kept the other.
C13_Witness ==
    /\ lastOp = "deleteRecipe"
    /\ prev.len = 2
    /\ Len(savedRecipes) = 1
    /\ ParseRecipes(store.recipes) = savedRecipes

\* C14 as stated: no two recipes of the collection have the same id.
C14_UniqueIds ==
    \A i, j \in 1..Len(savedRecipes) :
       i # j => savedRecipes[i].id # savedRecipes[j].id

\* C15: loadRecipe of a recipe of the collection sets the editor title and
\* content to that recipe's, and leaves the collection, the store, the
\* session and the engine as they were.
C15_LoadFillsEditorOnly ==
    [][\A i \in 1..MaxRecipes :
          LoadRecipe(i)
             => /\ recipeTitle' = savedRecipes[i].title
                /\ recipe' = savedRecipes[i].content
                /\ UNCHANGED <<savedRecipes, store, sessionVars, engineVars>>]_vars

\* C15 witness: the recipe a save added second was loaded while Playing.
C15_Witness ==
    /\ lastOp = "loadRecipe"
    /\ toast = "RecipeLoaded"
    /\ prev.state = "Playing"
    /\ SessionState = "Playing"
    /\ Len(savedRecipes) = 2
    /\ recipeTitle = savedRecipes[2].title
    /\ recipe = savedRecipes[2].content
    /\ recipe # savedRecipes[1].content

\* C16: an utterance, once constructed, keeps its text, rate, pitch, volume
\* and voice through every later step; and the utterance a step constructs
\* has the content and the rate, pitch and volume of the settings of that
\* moment.
C16_UtteranceFixedAtConstruction ==
    [][/\ Len(utts') >= Len(utts)
       /\ \A i \in 1..Len(utts) : utts'[i] = utts[i]
       /\ Len(utts') > Len(utts)
             => /\ Len(utts') = Len(utts) + 1
                /\ utts'[Len(utts')].text = recipe
                /\ utts'[Len(utts')].rate = ttsSettings.rate
                /\ utts'[Len(utts')].pitch = ttsSettings.pitch
                /\ utts'[Len(utts')].volume = ttsSettings.volume
                /\ utts'[Len(utts')].voice.name \in {ttsSettings.voice, ""}]_vars

\* C16 witness: a paused utterance was resumed after the rate, the voice
\* and the content had been changed, and it has none of the new values.
C16_Witness ==
    /\ lastOp = "startSpeech"
    /\ lastCalls = <<"resume">>
    /\ prev.state = "Paused"
    /\ currentUtterance # 0
    /\ utts[currentUtterance].rate # ttsSettings.rate
    /\ utts[currentUtterance].text # recipe
    /\ utts[currentUtterance].voice.name # ttsSettings.voice

\* C17: the utterance startSpeech constructs has a voice of the catalog
\* snapshot exactly when the snapshot has an entry named as the preferred
\* voice, and then that entry; otherwise it has the engine's default voice;
\* either way no notification is raised and the utterance is in the engine.
C17_VoiceByExactName ==
    (lastOp = "startSpeech" /\ "speak" \in Range(lastCalls))
       => /\ IF \E i \in 1..Len(availableVoices) :
                   availableVoices[i].name = ttsSettings.voice
             THEN /\ utts[currentUtterance].voice \in Range(availableVoices)
                  /\ utts[currentUtterance].voice.name = ttsSettings.voice
             ELSE /\ utts[currentUtterance].voice \notin Range(availableVoices)
                  /\ utts[currentUtterance].voice = DefaultVoice
          /\ toast = "none"
          /\ engQueue = <<currentUtterance>>

\* C17 witness: an utterance was constructed with the second voice of the
\* snapshot, the preferred one.
C17_Witness ==
    /\ lastOp = "startSpeech"
    /\ "speak" \in Range(lastCalls)
    /\ Len(availableVoices) = 2
    /\ ttsSettings.voice = availableVoices[2].name
    /\ utts[currentUtterance].voice = availableVoices[2]

\* C17 second case reached: an utterance was constructed with the default
\* voice, the preferred voice being empty and the snapshot empty.
C17_NoMatchReached ==
    /\ lastOp = "startSpeech"
    /\ "speak" \in Range(lastCalls)
    /\ ttsSettings.voice = ""
    /\ availableVoices = <<>>
    /\ utts[currentUtterance].voice = DefaultVoice

EngineEvents == {"onstart", "onend", "onerror"}

\* C18 as stated: a start, end or error event of an utterance that is not
\* the active one changes neither the flags nor the utterance reference
\* and raises no SpeechError notification.
C18_StaleEventsIgnored ==
    [][(lastOp' \in EngineEvents /\ prev'.utt # currentUtterance)
          => /\ UNCHANGED sessionVars
             /\ toast' # "SpeechError"]_vars

\* C19 as stated: a session that is Playing or Paused holds an utterance
\* reference.
C19_ActiveSessionHasUtterance ==
    (isPlaying \/ isPaused) => currentUtterance # 0

\* C20: isPlaying and isPaused are never both true.
C20_FlagsExclusive == ~(isPlaying /\ isPaused)

\* C20 witness: a paused session was resumed, so both flags were written by
\* pause and by the resume that followed.
C20_Witness ==
    /\ lastOp = "startSpeech"
    /\ lastCalls = <<"resume">>
    /\ prev.state = "Paused"
    /\ isPlaying
    /\ ~isPaused

====
